---- MODULE Spec2Model ----
(***************************************************************************)
(* A model of pos_notification_monitor.py: the POSEmailMonitor poll loop,  *)
(* its phrase matcher, its card allocator over the "Lock Box Keys" sheet   *)
(* and its notifications.  Python strings are tuples of one-character      *)
(* strings, so that split, join, lower, strip and "in" are computed.       *)
(***************************************************************************)
EXTENDS Integers, Sequences, FiniteSets, TLC

VARIABLES
    body,       \* contains_exact_phrase: the body argument
    phrase,     \* contains_exact_phrase: the configured EXACT_MATCH_PHRASE
    matched,    \* contains_exact_phrase: the value returned for (body, phrase)
    sheet,      \* the "Lock Box Keys" worksheet: what get_all_values() returns
    card,       \* card_letter, card_number, row_number, total_available
    pc,         \* the statement the process is at
    mailbox,    \* INBOX: message number -> the message (0: not yet arrived)
    seen,       \* INBOX: message number -> its \Seen flag
    mail,       \* the IMAP connection of this cycle and its state
    email_ids,  \* check_new_emails: the search results still to be processed
    email_id,   \* process_email: the message being processed (0: none)
    history,    \* message number -> what has been done for it, over all runs
    calls,      \* process_email: the calls made so far for email_id
    pending,    \* the exception the finally block of check_new_emails re-raises
    exit        \* how the process ended, and on which exception

matchVars == <<body, phrase, matched>>

monitorVars ==
    <<mailbox, seen, mail, email_ids, email_id, history, calls, pending, exit>>

vars ==
    <<body, phrase, matched, sheet, card, pc, mailbox, seen, mail, email_ids,
      email_id, history, calls, pending, exit>>

(***************************************************************************)
(* Python string primitives.                                               *)
(***************************************************************************)

\* Python's None, where a string or a tuple is expected: no string equals it.
None == <<"None">>

\* Python's None, where a row number is expected: rows count from 1.
NoRow == 0

\* bool(x) of a string or None
truthy(x) == x # None /\ x # <<>>

\* The characters str.split() and str.strip() treat as whitespace.
Whitespace == {" ", "\n", "\t", "\r"}

UpperCase == <<"A","B","C","D","E","F","G","H","I","J","K","L","M",
               "N","O","P","Q","R","S","T","U","V","W","X","Y","Z">>

LowerCase == <<"a","b","c","d","e","f","g","h","i","j","k","l","m",
               "n","o","p","q","r","s","t","u","v","w","x","y","z">>

\* str.lower() on one character.
lower_char(c) ==
    IF \E i \in DOMAIN UpperCase : UpperCase[i] = c
    THEN LowerCase[CHOOSE i \in DOMAIN UpperCase : UpperCase[i] = c]
    ELSE c

\* str.lower()
lower(s) == [i \in 1..Len(s) |-> lower_char(s[i])]

\* str.split() with no separator: the maximal runs of non-whitespace.
RECURSIVE split_from(_, _, _)
split_from(s, word, words) ==
    IF s = <<>>
    THEN IF word = <<>> THEN words ELSE Append(words, word)
    ELSE IF Head(s) \in Whitespace
         THEN split_from(Tail(s), <<>>,
                         IF word = <<>> THEN words ELSE Append(words, word))
         ELSE split_from(Tail(s), Append(word, Head(s)), words)

split(s) == split_from(s, <<>>, <<>>)

\* sep.join(words)
RECURSIVE join(_, _)
join(sep, words) ==
    IF words = <<>> THEN <<>>
    ELSE IF Len(words) = 1 THEN words[1]
    ELSE words[1] \o sep \o join(sep, Tail(words))

\* needle in hay, on strings
contains(needle, hay) ==
    \E i \in 0..(Len(hay) - Len(needle)) :
        SubSeq(hay, i + 1, i + Len(needle)) = needle

\* str.strip()
RECURSIVE lstrip(_)
lstrip(s) ==
    IF s # <<>> /\ Head(s) \in Whitespace THEN lstrip(Tail(s)) ELSE s

RECURSIVE rstrip(_)
rstrip(s) ==
    IF s # <<>> /\ s[Len(s)] \in Whitespace
    THEN rstrip(SubSeq(s, 1, Len(s) - 1)) ELSE s

strip(s) == rstrip(lstrip(s))

(***************************************************************************)
(* contains_exact_phrase                                                   *)
(***************************************************************************)

\* A matcher that forgets .lower() on the body.
contains_exact_phrase_case_sensitive(b, p) ==
    contains(lower(join(<<" ">>, split(p))), join(<<" ">>, split(b)))

\* contains_exact_phrase(body), with EXACT_MATCH_PHRASE as the parameter p.
contains_exact_phrase(b, p) ==
    LET body_normalized == join(<<" ">>, split(b))
        phrase_normalized == join(<<" ">>, split(p))
    IN  contains(lower(phrase_normalized), lower(body_normalized))

(***************************************************************************)
(* The inventory sheet.  A row is the list of its cells, a cell a string;  *)
(* rows 1 and 2 are the header row and the empty row under it.  The model  *)
(* keeps columns A (letter), B (card number) and C (given to): columns D   *)
(* and E are written by assign_card_to_customer and read by nothing.       *)
(***************************************************************************)

\* What get_next_available_card returns when it has no card to return.
NoCard ==
    [card_letter |-> None, card_number |-> None, row_number |-> NoRow,
     total_available |-> 0]

\* row[k] if len(row) > k else "", with Python's 0-based k
cell_or_empty(row, k) == IF Len(row) > k THEN row[k + 1] ELSE <<>>

\* The for-loop of get_next_available_card over all_rows[2:], rows counted
\* from 3: the available cards met so far, and the first of them.
RECURSIVE scan_rows(_, _, _, _)
scan_rows(all_rows, i, available_cards, first_available) ==
    IF i > Len(all_rows)
    THEN [available_cards |-> available_cards, first_available |-> first_available]
    ELSE LET row == all_rows[i]
             letter == cell_or_empty(row, 0)
             card_number == cell_or_empty(row, 1)
             given_to == cell_or_empty(row, 2)
         IN  IF letter # <<>> /\ card_number # <<>> /\ strip(given_to) = <<>>
             THEN scan_rows(all_rows, i + 1,
                      Append(available_cards, <<letter, card_number, i>>),
                      IF first_available = None
                      THEN <<letter, card_number, i>> ELSE first_available)
             ELSE scan_rows(all_rows, i + 1, available_cards, first_available)

\* A scan that skips the header row only.
get_next_available_card_from_row_2(all_rows) ==
    LET found == scan_rows(all_rows, 2, <<>>, None)
    IN  IF found.first_available # None
        THEN [card_letter |-> found.first_available[1],
              card_number |-> found.first_available[2],
              row_number |-> found.first_available[3],
              total_available |-> Len(found.available_cards)]
        ELSE NoCard

\* get_next_available_card, once sheet.get_all_values() has returned all_rows.
get_next_available_card(all_rows) ==
    LET found == scan_rows(all_rows, 3, <<>>, None)
    IN  IF found.first_available # None
        THEN [card_letter |-> found.first_available[1],
              card_number |-> found.first_available[2],
              row_number |-> found.first_available[3],
              total_available |-> Len(found.available_cards)]
        ELSE NoCard

\* sheet.update_cell(row, col, value): the row grows to hold the column.
update_cell(rows, row, col, value) ==
    LET old == rows[row]
        wide == [k \in 1..(IF Len(old) > col THEN Len(old) ELSE col) |->
                    IF k <= Len(old) THEN old[k] ELSE <<>>]
    IN  [rows EXCEPT ![row] = [wide EXCEPT ![col] = value]]

\* The monitor's variables where the monitor does not run.
MonitorAbsent ==
    /\ mailbox = <<>>
    /\ seen = <<>>
    /\ mail = "none"
    /\ email_ids = <<>>
    /\ email_id = 0
    /\ history = <<>>
    /\ calls = <<>>
    /\ pending = "none"
    /\ exit = [status |-> "none", cause |-> "none"]

(***************************************************************************)
(* The allocator on its own: sheets drawn from a bounded set, read by      *)
(* get_next_available_card and written by assign_card_to_customer.         *)
(***************************************************************************)

MaxRows == 3

HeaderRow == << <<"L">>, <<"#">>, <<"G">> >>

CardLikeRow == << <<"A">>, <<"1">>, <<>> >>

\* The name assign_card_to_customer writes in the allocator's own runs.
SomeName == <<"J", "o">>

LetterCells == {<<>>, <<"A">>}

NumberCells == {<<>>, <<"1">>}

GivenToCells == {<<>>, <<" ">>, SomeName}

\* Rows of zero to three cells.
DataRows ==
    {<<>>}
    \cup {<<l>> : l \in LetterCells}
    \cup {<<l, n>> : <<l, n>> \in LetterCells \X NumberCells}
    \cup {<<l, n, g>> : <<l, n, g>> \in LetterCells \X NumberCells \X GivenToCells}

\* The first two rows: the header and the empty row, or two rows that look
\* like available cards.
HeaderRegions == {<<HeaderRow, <<>>>>, <<CardLikeRow, CardLikeRow>>}

Sheets ==
    {<<>>, <<HeaderRow>>}
    \cup {h \o d : <<h, d>> \in
            HeaderRegions \X UNION {[1..k -> DataRows] : k \in 0..MaxRows}}

SheetInit ==
    /\ body = <<>>
    /\ phrase = <<>>
    /\ matched = TRUE
    /\ sheet \in Sheets
    /\ card = NoCard
    /\ pc = "sheet"
    /\ MonitorAbsent

\* card_letter, card_number, row_number, total_available =
\*     self.get_next_available_card()
SheetRead ==
    /\ pc = "sheet"
    /\ card' = get_next_available_card(sheet)
    /\ pc' = "sheet_read"
    /\ UNCHANGED <<matchVars, monitorVars, sheet>>

\* self.assign_card_to_customer(row_number, customer_name), all three
\* update_cell calls succeeding
SheetAssign ==
    /\ pc = "sheet_read"
    /\ card.row_number # NoRow
    /\ sheet' = update_cell(sheet, card.row_number, 3, SomeName)
    /\ pc' = "sheet"
    /\ UNCHANGED <<matchVars, monitorVars, card>>

SheetNext == SheetRead \/ SheetAssign

SpecSheet == SheetInit /\ [][SheetNext]_vars

(***************************************************************************)
(* C4                                                                      *)
(***************************************************************************)

\* A card record: a row after the two header rows with a letter and a
\* card number.
C4_IsCardRecord(rows, i) ==
    /\ i > 2
    /\ Len(rows[i]) >= 2
    /\ rows[i][1] # <<>>
    /\ rows[i][2] # <<>>

\* Its assigned-to field is empty: absent, or nothing but whitespace.
C4_Unassigned(rows, i) ==
    \/ Len(rows[i]) < 3
    \/ \A k \in 1..Len(rows[i][3]) : rows[i][3][k] \in Whitespace

C4_Available(rows) ==
    {i \in 1..Len(rows) : C4_IsCardRecord(rows, i) /\ C4_Unassigned(rows, i)}

\* C4: with N unassigned card records after the two header rows,
\* get_next_available_card returns the first of them in row order, its row
\* position and the count N; with N = 0 it returns no record and count 0.
C4_FirstAvailableAndCount ==
    pc = "sheet_read" =>
        LET avail == C4_Available(sheet)
        IN  IF avail = {}
            THEN card = NoCard
            ELSE LET first == CHOOSE i \in avail : \A j \in avail : i <= j
                 IN  /\ card.row_number = first
                     /\ card.card_letter = sheet[first][1]
                     /\ card.card_number = sheet[first][2]
                     /\ card.total_available = Cardinality(avail)

\* The scan has passed an assigned record, returned the record after it and
\* counted two available records, in a sheet whose header region holds rows
\* that look like available cards.
C4_Witness ==
    /\ pc = "sheet_read"
    /\ Len(sheet) = 5
    /\ sheet[1] = CardLikeRow
    /\ C4_IsCardRecord(sheet, 3) /\ ~C4_Unassigned(sheet, 3)
    /\ card.row_number = 4
    /\ card.total_available = 2

(***************************************************************************)
(* The matcher on its own: bodies and phrases drawn from bounded sets,     *)
(* rewritten one whitespace or case edit at a time.                        *)
(***************************************************************************)

MaxBodyLen == 4
MaxPhraseLen == 3

MatchAlphabet == {"a", "A", " ", "\n"}

StringsUpTo(n) == UNION {[1..k -> MatchAlphabet] : k \in 0..n}

\* s with character c inserted before position i (i = Len(s) + 1 appends).
InsertAt(s, i, c) == SubSeq(s, 1, i - 1) \o <<c>> \o SubSeq(s, i, Len(s))

RemoveAt(s, i) == SubSeq(s, 1, i - 1) \o SubSeq(s, i + 1, Len(s))

\* The positions where one more whitespace character lengthens a run of
\* whitespace, or adds leading or trailing whitespace.
CanPad(s, i) ==
    \/ i = 1
    \/ i = Len(s) + 1
    \/ s[i - 1] \in Whitespace
    \/ s[i] \in Whitespace

\* The whitespace characters whose removal shortens a run without joining
\* two words: a neighbour is whitespace too, or the character leads or trails.
CanTrim(s, i) ==
    /\ s[i] \in Whitespace
    /\ \/ i = 1
       \/ i = Len(s)
       \/ s[i - 1] \in Whitespace
       \/ s[i + 1] \in Whitespace

swap_case_char(c) ==
    IF \E i \in DOMAIN UpperCase : UpperCase[i] = c
    THEN LowerCase[CHOOSE i \in DOMAIN UpperCase : UpperCase[i] = c]
    ELSE IF \E i \in DOMAIN LowerCase : LowerCase[i] = c
         THEN UpperCase[CHOOSE i \in DOMAIN LowerCase : LowerCase[i] = c]
         ELSE c

Padded(s, max) ==
    {InsertAt(s, i, c) : <<i, c>> \in
        {ic \in (1..(Len(s) + 1)) \X (Whitespace \cap MatchAlphabet) :
            Len(s) < max /\ CanPad(s, ic[1])}}

Trimmed(s) == {RemoveAt(s, i) : i \in {j \in 1..Len(s) : CanTrim(s, j)}}

Recased(s) ==
    {[s EXCEPT ![i] = swap_case_char(s[i])] : i \in
        {j \in 1..Len(s) : swap_case_char(s[j]) \in MatchAlphabet}}

MatchInit ==
    /\ sheet = <<>>
    /\ card = NoCard
    /\ pc = "match"
    /\ MonitorAbsent
    /\ body \in StringsUpTo(MaxBodyLen)
    /\ phrase \in StringsUpTo(MaxPhraseLen)
    /\ matched = contains_exact_phrase(body, phrase)

Rematch(b, p) ==
    /\ body' = b
    /\ phrase' = p
    /\ matched' = contains_exact_phrase(b, p)
    /\ UNCHANGED <<monitorVars, sheet, card, pc>>

PadBody == \E b \in Padded(body, MaxBodyLen) : Rematch(b, phrase)

TrimBody == \E b \in Trimmed(body) : Rematch(b, phrase)

RecaseBody == \E b \in Recased(body) : Rematch(b, phrase)

PadPhrase == \E p \in Padded(phrase, MaxPhraseLen) : Rematch(body, p)

TrimPhrase == \E p \in Trimmed(phrase) : Rematch(body, p)

RecasePhrase == \E p \in Recased(phrase) : Rematch(body, p)

MatchNext ==
    \/ PadBody
    \/ TrimBody
    \/ RecaseBody
    \/ PadPhrase
    \/ TrimPhrase
    \/ RecasePhrase

SpecMatch == MatchInit /\ [][MatchNext]_vars

(***************************************************************************)
(* C6                                                                      *)
(***************************************************************************)

\* s with every run of whitespace replaced by one space.
RECURSIVE C6_Squeeze(_)
C6_Squeeze(s) ==
    IF s = <<>> THEN <<>>
    ELSE IF Head(s) \in Whitespace
         THEN IF Len(s) > 1 /\ s[2] \in Whitespace
              THEN C6_Squeeze(Tail(s))
              ELSE <<" ">> \o C6_Squeeze(Tail(s))
         ELSE <<Head(s)>> \o C6_Squeeze(Tail(s))

\* Whitespace-collapsed and lowercased: squeezed, without the leading and
\* the trailing space, every upper-case letter replaced by its lower case.
C6_Normal(s) ==
    LET q == C6_Squeeze(s)
        a == IF q # <<>> /\ q[1] = " " THEN Tail(q) ELSE q
        z == IF a # <<>> /\ a[Len(a)] = " " THEN SubSeq(a, 1, Len(a) - 1) ELSE a
    IN  [i \in 1..Len(z) |->
            IF \E k \in 1..26 : UpperCase[k] = z[i]
            THEN LowerCase[CHOOSE k \in 1..26 : UpperCase[k] = z[i]]
            ELSE z[i]]

\* C6: contains_exact_phrase gives the same result after any run of
\* whitespace of the body or the phrase is lengthened or shortened (line
\* breaks, leading and trailing whitespace included) and after the case of
\* any character is changed, and the result is substring containment of the
\* whitespace-collapsed, lowercased phrase in the whitespace-collapsed,
\* lowercased body.
C6_MatchInvariantUnderWhitespaceAndCase ==
    /\ [](matched = contains(C6_Normal(phrase), C6_Normal(body)))
    /\ [][matched' = matched]_vars

\* A body that matches although its whitespace and case differ from the
\* phrase's: the phrase has two words, the body holds a line break and
\* upper-case letters, and the phrase is not literally part of it.
C6_Witness ==
    /\ matched
    /\ Len(split(phrase)) = 2
    /\ \E i \in 1..Len(body) : body[i] = "\n"
    /\ ~contains(phrase, body)
    /\ lower(body) # body

(***************************************************************************)
(* Configuration and messages.                                             *)
(***************************************************************************)

WELLNESSLIVING_COM ==
    <<"w", "e", "l", "l", "n", "e", "s", "s", "l", "i", "v", "i", "n",
      "g", ".", "c", "o", "m">>

SUBJECT_FILTER ==
    <<"S", "a", "l", "e", " ", "H", "a", "s", " ", "B", "e", "e", "n",
      " ", "M", "a", "d", "e", " ", "N", "o", "t", "i", "f", "i", "c",
      "a", "t", "i", "o", "n">>

EXACT_MATCH_PHRASE ==
    <<"O", "N", "L", "I", "N", "E", " ", "S", "A", "L", "E">>

FromWellnessLiving ==
    <<"P", "O", "S", " ", "<", "x", "@", "W", "e", "l", "l", "n", "e",
      "s", "s", "L", "i", "v", "i", "n", "g", ".", "c", "o", "m", ">">>

FromElsewhere ==
    <<"x", "@", "w", "e", "l", "l", "n", "e", "s", "s", "l", "i", "v",
      "i", "n", "g", ".", "c", "o">>

SubjectOfSale ==
    <<"S", "A", "L", "E", " ", "H", "A", "S", " ", "B", "E", "E", "N",
      " ", "M", "A", "D", "E", " ", "N", "O", "T", "I", "F", "I", "C",
      "A", "T", "I", "O", "N", " ", "-", " ", "S", "t", "o", "r", "e",
      " ", "2">>

SubjectOfRefund ==
    <<"S", "a", "l", "e", " ", "H", "a", "s", " ", "B", "e", "e", "n",
      " ", "R", "e", "f", "u", "n", "d", "e", "d", " ", "N", "o", "t",
      "i", "f", "i", "c", "a", "t", "i", "o", "n">>

BodyOfOnlineSale ==
    <<"I", "t", "e", "m", ":", "\n", "O", "n", "l", "i", "n", "e", " ",
      "\n", " ", "S", "A", "L", "E", " ", "-", " ", "A", "u", "t", "o",
      "-", "P", "a", "y">>

BodyOfOtherSale ==
    <<"I", "t", "e", "m", ":", " ", "O", "N", "L", "I", "N", "E", "S",
      "A", "L", "E", " ", "i", "n", " ", "s", "t", "o", "r", "e">>

CustomerAddress ==
    <<"j", "o", "@", "x", ".", "c", "a">>

CustomerName ==
    <<"J", "o">>

\* A message of the INBOX.  Subject is the subject as decode_email_subject
\* returns it, server_hit whether the server's SUBJECT search selects the
\* message (the server matches in its own way), customer_email and
\* customer_name what extract_customer_info returns for the body.
Message(from, subject, server_hit, text, address, name) ==
    [From |-> from, Subject |-> subject, server_hit |-> server_hit,
     body |-> text, customer_email |-> address, customer_name |-> name]

Templates ==
    << Message(FromWellnessLiving, SubjectOfSale, TRUE, BodyOfOnlineSale,
               CustomerAddress, CustomerName),
       Message(FromWellnessLiving, SubjectOfSale, TRUE, BodyOfOnlineSale,
               CustomerAddress, None),
       Message(FromWellnessLiving, SubjectOfSale, TRUE, BodyOfOnlineSale,
               None, None),
       Message(FromElsewhere, SubjectOfSale, TRUE, BodyOfOnlineSale,
               CustomerAddress, CustomerName),
       Message(FromWellnessLiving, SubjectOfRefund, TRUE, BodyOfOnlineSale,
               CustomerAddress, CustomerName),
       Message(FromWellnessLiving, SubjectOfSale, TRUE, BodyOfOtherSale,
               CustomerAddress, CustomerName),
       Message(FromWellnessLiving, SubjectOfRefund, FALSE, BodyOfOnlineSale,
               CustomerAddress, CustomerName) >>

\* ALERT_PHONE_NUMBER_2 is '' unless the environment sets it; the monitor is
\* run with the second number set, where send_no_cards_alert and
\* send_sms_alert make their second call.
ALERT_PHONE_NUMBER_2 == TRUE

NumMsgs == 2
NumCards == 3

Msgs == 1..NumMsgs

Digits == <<"1", "2", "3", "4", "5", "6", "7", "8", "9">>

\* The sheets a run starts from: the header, the empty row, and NumCards
\* card records, each one free or given to somebody.
InitialSheets ==
    {<<HeaderRow, <<>>>> \o
        [i \in 1..NumCards |->
            << <<UpperCase[i]>>, <<Digits[i]>>, IF i \in given THEN SomeName ELSE <<>> >>]
     : given \in SUBSET (1..NumCards)}

\* 'wellnessliving.com' in sender.lower()
sender_matches(sender) == contains(WELLNESSLIVING_COM, lower(sender))

\* not (SUBJECT_FILTER and SUBJECT_FILTER.lower() not in subject.lower())
subject_matches(subject) ==
    ~truthy(SUBJECT_FILTER) \/ contains(lower(SUBJECT_FILTER), lower(subject))

\* The checks of process_email without the sender check.
admitted_from_any_sender(msg) ==
    /\ subject_matches(msg.Subject)
    /\ contains_exact_phrase(msg.body, EXACT_MATCH_PHRASE)

\* The checks of process_email a message passes to reach the fan-out.
admitted(msg) ==
    /\ sender_matches(msg.From)
    /\ subject_matches(msg.Subject)
    /\ contains_exact_phrase(msg.body, EXACT_MATCH_PHRASE)

\* A fetch with BODY.PEEK[], which leaves the \Seen flag alone.
fetch_peek(flags, m) == flags

\* mail.fetch(email_id, '(RFC822)') answered OK: the server sets \Seen.
fetch(flags, m) == [flags EXCEPT ![m] = TRUE]

\* mail.search(None, '(UNSEEN SUBJECT "...")') answered OK, in number order.
RECURSIVE search(_)
search(m) ==
    IF m > NumMsgs THEN <<>>
    ELSE IF /\ mailbox[m] # 0
            /\ ~seen[m]
            /\ (truthy(SUBJECT_FILTER) => Templates[mailbox[m]].server_hit)
         THEN <<m>> \o search(m + 1)
         ELSE search(m + 1)

(***************************************************************************)
(* Exceptions.  A call that fails raises "Exception"; an external          *)
(* interrupt raises "KeyboardInterrupt" in whatever call is running.       *)
(***************************************************************************)

\* except clauses that name a narrower class than Exception.
catches_too_little(clause, e) ==
    \/ clause = "except:"
    \/ clause = "except KeyboardInterrupt" /\ e = "KeyboardInterrupt"

\* Whether an except clause catches an exception.
catches(clause, e) ==
    \/ clause = "except:"
    \/ clause = "except Exception" /\ e = "Exception"
    \/ clause = "except KeyboardInterrupt" /\ e = "KeyboardInterrupt"

\* The attributes __init__ gives the monitor.
Attributes == {"twilio_client"}

Running == [status |-> "running", cause |-> "none"]

Control(p, e, x) == [pc |-> p, pending |-> e, exit |-> x]

Continue(p) == Control(p, "none", Running)

\* The try statement of run around check_new_emails and time.sleep.  The
\* KeyboardInterrupt clause prints len(self.processed_emails) and breaks;
\* the Exception clause sleeps and loops.
run_except(e) ==
    IF catches("except KeyboardInterrupt", e)
    THEN IF "processed_emails" \in Attributes
         THEN Control("terminated", "none", [status |-> "clean", cause |-> e])
         ELSE Control("terminated", "none",
                      [status |-> "AttributeError", cause |-> e])
    ELSE IF catches("except Exception", e)
         THEN Continue("sleeping")
         ELSE Control("terminated", "none", [status |-> e, cause |-> e])

Block(clause, target) == [clause |-> clause, target |-> target]

\* Where control goes when e is raised inside the try blocks given,
\* innermost first; past the last of them stands the try statement of run.
RECURSIVE unwind(_, _)
unwind(blocks, e) ==
    IF blocks = <<>> THEN run_except(e)
    ELSE IF Head(blocks).clause = "finally"
         THEN Control("finally", e, Running)
         ELSE IF catches(Head(blocks).clause, e)
              THEN Continue(Head(blocks).target)
              ELSE unwind(Tail(blocks), e)

\* connect_to_email: on an exception it returns None, check_new_emails
\* returns and run sleeps.
in_connect == << Block("except Exception", "sleeping") >>

\* The try / except / finally of check_new_emails.
in_check == << Block("except Exception", "finally"), Block("finally", "finally") >>

\* The try / except of process_email, inside that of check_new_emails.
in_process == << Block("except Exception", "loop") >> \o in_check

\* A helper with no try / except of its own: its exception reaches the
\* except clause of process_email.
in_call_without_try(resume) == in_process

\* The try / except of a helper process_email calls: on an exception the
\* helper returns and process_email goes on at resume.
in_call(resume) == << Block("except Exception", resume) >> \o in_process

\* The try blocks around the statement at p.
try_blocks(p) ==
    CASE p = "connect" -> in_connect
      [] p = "sleeping" -> <<>>
      [] p \in {"select", "search", "loop"} -> in_check
      [] p \in {"fetch", "filter"} -> in_process
      [] OTHER -> in_call("loop")

\* A call that succeeds goes on at resume; one that fails raises.
Call(ok, resume, blocks) ==
    IF ok THEN Continue(resume) ELSE unwind(blocks, "Exception")

Go(c) ==
    /\ pc' = c.pc
    /\ pending' = c.pending
    /\ exit' = c.exit

(***************************************************************************)
(* The monitor.                                                            *)
(***************************************************************************)

\* What is remembered of a message over all runs of the process: how often
\* its fan-out was started (forward_email called), the card, by its row,
\* that a sent staff SMS or customer email named, and whether the process
\* has been started again since the fan-out.
NoHistory == [fanouts |-> 0, card |-> NoRow, earlier_run |-> FALSE]

\* The calls process_email has made for the message at hand: how often each
\* was made, and the template the customer email used.
NoCalls ==
    [forward |-> 0, read |-> 0, assign |-> 0, low |-> 0,
     nc_email |-> 0, nc_sms1 |-> 0, nc_sms2 |-> 0,
     sms1 |-> 0, sms2 |-> 0, cust |-> 0, cust_kind |-> "none"]

Init ==
    /\ body = <<>>
    /\ phrase = EXACT_MATCH_PHRASE
    /\ matched = FALSE
    /\ sheet \in InitialSheets
    /\ card = NoCard
    /\ pc = "connect"
    /\ mailbox = [m \in Msgs |-> 0]
    /\ seen = [m \in Msgs |-> FALSE]
    /\ mail = "none"
    /\ email_ids = <<>>
    /\ email_id = 0
    /\ history = [m \in Msgs |-> NoHistory]
    /\ calls = NoCalls
    /\ pending = "none"
    /\ exit = Running

msg == Templates[mailbox[email_id]]

\* A message arrives in the INBOX and gets the next message number.  The
\* INBOX is read by search alone, so the arrivals since the last search are
\* taken when the next search is about to run.
Deliver ==
    \E m \in Msgs, t \in DOMAIN Templates :
        /\ pc = "search"
        /\ mailbox[m] = 0
        /\ \A k \in 1..(m - 1) : mailbox[k] # 0
        /\ mailbox' = [mailbox EXCEPT ![m] = t]
        /\ UNCHANGED <<matchVars, sheet, card, pc, seen, mail, email_ids,
                       email_id, history, calls, pending, exit>>

\* mail = self.connect_to_email(); if not mail: return
Connect ==
    /\ pc = "connect"
    /\ \E ok \in BOOLEAN :
        /\ mail' = IF ok THEN "authenticated" ELSE "none"
        /\ Go(Call(ok, "select", in_connect))
    /\ UNCHANGED <<matchVars, sheet, card, mailbox, seen, email_ids, email_id,
                   history, calls>>

\* mail.select('INBOX')
Select ==
    /\ pc = "select"
    /\ \E ok \in BOOLEAN :
        /\ mail' = IF ok THEN "selected" ELSE mail
        /\ Go(Call(ok, "search", in_check))
    /\ UNCHANGED <<matchVars, sheet, card, mailbox, seen, email_ids, email_id,
                   history, calls>>

\* status, messages = mail.search(None, search_criteria)
\* if status == 'OK': email_ids = messages[0].split()
Search ==
    /\ pc = "search"
    /\ \E answer \in {"OK", "NO", "raises"} :
        /\ email_ids' = IF answer = "OK" THEN search(1) ELSE <<>>
        /\ Go(IF answer = "raises"
              THEN unwind(in_check, "Exception")
              ELSE Continue("loop"))
    /\ UNCHANGED <<matchVars, sheet, card, mailbox, seen, mail, email_id,
                   history, calls>>

\* for email_id in email_ids: self.process_email(mail, email_id)
NextEmail ==
    /\ pc = "loop"
    /\ IF email_ids = <<>>
       THEN /\ email_id' = 0
            /\ email_ids' = email_ids
            /\ Go(Continue("finally"))
       ELSE /\ email_id' = Head(email_ids)
            /\ email_ids' = Tail(email_ids)
            /\ Go(Continue("fetch"))
    /\ card' = NoCard
    /\ calls' = NoCalls
    /\ UNCHANGED <<matchVars, sheet, mailbox, seen, mail, history>>

\* status, msg_data = mail.fetch(email_id, '(RFC822)')
\* if status != 'OK': return
Fetch ==
    /\ pc = "fetch"
    /\ \E answer \in {"OK", "NO", "raises"} :
        /\ seen' = IF answer = "OK" THEN fetch(seen, email_id) ELSE seen
        /\ Go(CASE answer = "OK" -> Continue("filter")
                [] answer = "NO" -> Continue("loop")
                [] answer = "raises" -> unwind(in_process, "Exception"))
    /\ UNCHANGED <<matchVars, sheet, card, mailbox, mail, email_ids, email_id,
                   history, calls>>

\* The sender check, the subject check and contains_exact_phrase(body).
Filter ==
    /\ pc = "filter"
    /\ Go(Continue(IF admitted(msg) THEN "forward" ELSE "loop"))
    /\ UNCHANGED <<matchVars, sheet, card, mailbox, seen, mail, email_ids,
                   email_id, history, calls>>

\* self.forward_email(msg, body)
Forward ==
    /\ pc = "forward"
    /\ calls' = [calls EXCEPT !.forward = @ + 1]
    /\ history' = [history EXCEPT ![email_id].fanouts = @ + 1]
    /\ \E ok \in BOOLEAN : Go(Call(ok, "allocate", in_call("allocate")))
    /\ UNCHANGED <<matchVars, sheet, card, mailbox, seen, mail, email_ids,
                   email_id>>

\* if customer_email and customer_name:
\*     card_letter, card_number, row_number, total_available =
\*         self.get_next_available_card()
\*     if card_letter and card_number and row_number: ... else: ...
Allocate ==
    /\ pc = "allocate"
    /\ IF truthy(msg.customer_email) /\ truthy(msg.customer_name)
       THEN \E ok \in BOOLEAN :
               LET got == IF ok THEN get_next_available_card(sheet) ELSE NoCard
                   next == IF /\ truthy(got.card_letter)
                              /\ truthy(got.card_number)
                              /\ got.row_number # NoRow
                           THEN "assign" ELSE "no_cards_alert"
               IN  /\ card' = got
                   /\ calls' = [calls EXCEPT !.read = @ + 1]
                   /\ Go(Call(ok, next, in_call(next)))
       ELSE /\ Go(Continue("sms_alert"))
            /\ UNCHANGED <<card, calls>>
    /\ UNCHANGED <<matchVars, sheet, mailbox, seen, mail, email_ids, email_id,
                   history>>

\* self.assign_card_to_customer(row_number, customer_name): the request may
\* fail before the first update_cell, or after it.
Assign ==
    /\ pc = "assign"
    /\ \E outcome \in {"written", "fails before column C", "fails after column C"} :
        /\ sheet' = IF outcome = "fails before column C"
                    THEN sheet
                    ELSE update_cell(sheet, card.row_number, 3, msg.customer_name)
        /\ Go(Call(outcome = "written", "low_check", in_call("low_check")))
    /\ calls' = [calls EXCEPT !.assign = @ + 1]
    /\ UNCHANGED <<matchVars, card, mailbox, seen, mail, email_ids, email_id,
                   history>>

\* remaining_cards = total_available - 1
\* if remaining_cards <= 1: self.send_low_inventory_alert(remaining_cards)
LowCheck ==
    /\ pc = "low_check"
    /\ LET remaining_cards == card.total_available - 1
       IN  IF remaining_cards <= 1
           THEN /\ calls' = [calls EXCEPT !.low = @ + 1]
                /\ \E ok \in BOOLEAN :
                       Go(Call(ok, "sms_alert", in_call("sms_alert")))
           ELSE /\ calls' = calls
                /\ Go(Continue("sms_alert"))
    /\ UNCHANGED <<matchVars, sheet, card, mailbox, seen, mail, email_ids,
                   email_id, history>>

\* self.send_no_cards_alert(customer_name): the email, then inside a try
\* of their own the SMS to the first number and the SMS to the second.
NoCardsAlert ==
    /\ pc = "no_cards_alert"
    /\ \E email_ok, sms1_ok, sms2_ok \in BOOLEAN :
        LET second == email_ok /\ sms1_ok /\ ALERT_PHONE_NUMBER_2
        IN  /\ calls' = [calls EXCEPT
                            !.nc_email = @ + 1,
                            !.nc_sms1 = IF email_ok THEN @ + 1 ELSE @,
                            !.nc_sms2 = IF second THEN @ + 1 ELSE @]
            /\ Go(IF ~email_ok
                  THEN unwind(in_call("sms_alert"), "Exception")
                  ELSE Call(sms1_ok /\ (second => sms2_ok), "sms_alert",
                            << Block("except Exception", "sms_alert") >>
                                \o in_call("sms_alert")))
    /\ UNCHANGED <<matchVars, sheet, card, mailbox, seen, mail, email_ids,
                   email_id, history>>

\* self.send_sms_alert(customer_name, card_letter, card_number)
\* if customer_email: self.send_customer_email(...)
SmsAlert ==
    /\ pc = "sms_alert"
    /\ \E sms1_ok, sms2_ok \in BOOLEAN :
        LET second == sms1_ok /\ ALERT_PHONE_NUMBER_2
            names_card == /\ truthy(msg.customer_name)
                          /\ truthy(card.card_letter)
                          /\ truthy(card.card_number)
            next == IF truthy(msg.customer_email) THEN "customer_email" ELSE "loop"
        IN  /\ calls' = [calls EXCEPT !.sms1 = @ + 1,
                                      !.sms2 = IF second THEN @ + 1 ELSE @]
            /\ history' = [history EXCEPT ![email_id].card =
                              IF names_card /\ sms1_ok THEN card.row_number ELSE @]
            /\ Go(Call(sms1_ok /\ (second => sms2_ok), next, in_call(next)))
    /\ UNCHANGED <<matchVars, sheet, card, mailbox, seen, mail, email_ids,
                   email_id>>

\* self.send_customer_email(customer_email, customer_name, card_letter,
\*                          card_number)
CustomerEmail ==
    /\ pc = "customer_email"
    /\ \E ok \in BOOLEAN :
        LET with_card == truthy(card.card_letter) /\ truthy(card.card_number)
        IN  /\ calls' = [calls EXCEPT
                            !.cust = @ + 1,
                            !.cust_kind = IF with_card THEN "card" ELSE "no card"]
            /\ history' = [history EXCEPT ![email_id].card =
                              IF with_card /\ ok THEN card.row_number ELSE @]
            /\ Go(Call(ok, "loop", in_call("loop")))
    /\ UNCHANGED <<matchVars, sheet, card, mailbox, seen, mail, email_ids,
                   email_id>>

\* check_new_emails is left, and its locals and those of process_email
\* with it.
Return ==
    /\ email_ids' = <<>>
    /\ email_id' = 0
    /\ card' = NoCard
    /\ calls' = NoCalls

\* What follows the finally block: the exception on its way out is raised
\* again, or check_new_emails returns and run sleeps.
after_finally ==
    IF pending = "none" THEN Continue("sleeping") ELSE run_except(pending)

\* finally: try: mail.close(); mail.logout() except: pass
\* close() raises unless a mailbox is selected, and then logout() is skipped;
\* when logout() raises the connection is not logged out either.
Finally ==
    /\ pc = "finally"
    /\ \E outcome \in {"closed and logged out", "close raises", "logout raises"} :
        /\ outcome # "close raises" => mail = "selected"
        /\ mail' = IF outcome = "closed and logged out"
                   THEN "logged out" ELSE "left open"
    /\ Go(after_finally)
    /\ Return
    /\ UNCHANGED <<matchVars, sheet, mailbox, seen, history>>

\* An external interrupt while close() or logout() runs: the bare except of
\* the finally block catches the KeyboardInterrupt.
InterruptInFinally ==
    /\ pc = "finally"
    /\ Go(IF catches("except:", "KeyboardInterrupt")
          THEN after_finally
          ELSE run_except("KeyboardInterrupt"))
    /\ mail' = "left open"
    /\ Return
    /\ UNCHANGED <<matchVars, sheet, mailbox, seen, history>>

\* time.sleep(CHECK_INTERVAL), and the next turn of while True
Sleep ==
    /\ pc = "sleeping"
    /\ Go(Continue("connect"))
    /\ mail' = "none"
    /\ UNCHANGED <<matchVars, sheet, card, mailbox, seen, email_ids,
                   email_id, history, calls>>

\* An external interrupt during the poll cycle or the sleep: the
\* KeyboardInterrupt leaves process_email and the body of check_new_emails.
Interrupt ==
    /\ pc \notin {"finally", "terminated"}
    /\ Go(unwind(try_blocks(pc), "KeyboardInterrupt"))
    /\ Return
    /\ UNCHANGED <<matchVars, sheet, mailbox, seen, mail, history>>

\* The process is started again: monitor = POSEmailMonitor(); monitor.run()
Restart ==
    /\ pc = "terminated"
    /\ history' = [m \in Msgs |->
                      [history[m] EXCEPT !.earlier_run = history[m].fanouts > 0]]
    /\ Go(Continue("connect"))
    /\ mail' = "none"
    /\ Return
    /\ UNCHANGED <<matchVars, sheet, mailbox, seen>>

Next ==
    \/ Deliver
    \/ Connect
    \/ Select
    \/ Search
    \/ NextEmail
    \/ Fetch
    \/ Filter
    \/ Forward
    \/ Allocate
    \/ Assign
    \/ LowCheck
    \/ NoCardsAlert
    \/ SmsAlert
    \/ CustomerEmail
    \/ Finally
    \/ InterruptInFinally
    \/ Sleep
    \/ Interrupt
    \/ Restart

Spec == Init /\ [][Next]_vars

(***************************************************************************)
(* C1 - C3, C5: the stock alerts and the cards issued.  The message at     *)
(* hand has passed its stock step when process_email stands before         *)
(* send_sms_alert; the sheet is then as allocation and assignment left it. *)
(***************************************************************************)

\* The record the allocator returned for the message at hand has a name in
\* its assigned-to field.
CardAssignedInSheet ==
    /\ card.row_number # NoRow
    /\ ~C4_Unassigned(sheet, card.row_number)

\* C1: the low-stock alert is sent exactly when a card was assigned for the
\* message and 0 or 1 available cards remain after the assignment; it is
\* not sent when 2 or more remain, nor when no card was assigned in the
\* sheet.
C1_LowStockAlertIffAssignedAndLow ==
    pc = "sms_alert" =>
        (calls.low = 1 <=>
            (CardAssignedInSheet /\ Cardinality(C4_Available(sheet)) <= 1))

\* C2: for a message that reached the allocator, the no-stock alert is sent
\* exactly when the sheet held no available card record at allocation time:
\* always then, and never while the sheet holds an available card.
C2_NoStockAlertIffNoneAvailable ==
    (pc = "sms_alert" /\ calls.read = 1) =>
        (calls.nc_email = 1 <=>
            (calls.assign = 0 /\ C4_Available(sheet) = {}))

\* C3: whenever the no-stock alert is raised, its email and the SMS to
\* every configured number are each attempted, whichever of them fails;
\* and send_sms_alert attempts the SMS to the second configured number
\* whether or not the SMS to the first one failed.
C3_AlertSendsAreIndependent ==
    /\ (pc = "sms_alert" /\ calls.nc_email = 1) =>
           /\ calls.nc_sms1 = 1
           /\ ALERT_PHONE_NUMBER_2 => calls.nc_sms2 = 1
    /\ (calls.sms1 = 1 /\ ALERT_PHONE_NUMBER_2) => calls.sms2 = 1

\* C5: with this process the only writer of the sheet, no card is named in
\* the SMS or the customer email of two different messages.
C5_NoCardIssuedTwice ==
    \A m1, m2 \in Msgs :
        (m1 # m2 /\ history[m1].card # NoRow) =>
            history[m1].card # history[m2].card

(***************************************************************************)
(* C7                                                                      *)
(***************************************************************************)

Range(f) == {f[i] : i \in DOMAIN f}

\* C7: over all poll cycles and restarts a message is handled at most
\* once.  It is unseen until its fetch, its fan-out starts at most once and
\* only once it is seen, within the fan-out each call is made at most
\* once, a scan selects no message whose fan-out has started, and a seen
\* message stays seen, across restarts too.
C7_HandledAtMostOnce ==
    /\ [](\A m \in Msgs :
            /\ history[m].fanouts <= 1
            /\ history[m].fanouts > 0 => seen[m]
            /\ m \in Range(email_ids) => history[m].fanouts = 0)
    /\ [](\A k \in {"forward", "read", "assign", "low", "nc_email", "nc_sms1",
                    "nc_sms2", "sms1", "sms2", "cust"} : calls[k] <= 1)
    /\ [][\A m \in Msgs : seen[m] => seen'[m]]_vars

\* A message was handled, the process was started again, and a scan of the
\* new process has selected a newer message and not the handled one.
C7_Witness ==
    /\ pc = "loop"
    /\ \E m, n \in Msgs :
        /\ history[m].fanouts = 1
        /\ history[m].earlier_run
        /\ m \notin Range(email_ids)
        /\ n \in Range(email_ids)

(***************************************************************************)
(* C8, C9                                                                  *)
(***************************************************************************)

\* C8: no failure of an external call and no exception raised while a
\* message is processed ends the run loop: the process ends on an external
\* interrupt only.
C8_OnlyAnInterruptEndsTheLoop ==
    pc = "terminated" => exit.cause = "KeyboardInterrupt"

\* The fetch of one message failed, the sheet read and the no-stock alert
\* email failed for the next one, and the loop is still processing it.
C8_Witness ==
    /\ pc = "customer_email"
    /\ \E m \in 1..(email_id - 1) :
        ~seen[m] /\ Templates[mailbox[m]].server_hit
    /\ calls.nc_email = 1
    /\ calls.nc_sms1 = 0
    /\ C4_Available(sheet) # {}

\* C9: after an external interrupt the run loop logs the session summary
\* and exits normally, raising no further error.
C9_InterruptEndsCleanly ==
    pc = "terminated" => exit.status = "clean"

(***************************************************************************)
(* C10                                                                     *)
(***************************************************************************)

\* The three checks, as the claim states them.
C10_Passes(m) ==
    /\ contains(WELLNESSLIVING_COM, C6_Normal(m.From))
    /\ contains(C6_Normal(SUBJECT_FILTER), C6_Normal(m.Subject))
    /\ contains(C6_Normal(EXACT_MATCH_PHRASE), C6_Normal(m.body))

\* The messages that pass the three checks as the claim states them.
C10_PassingTemplates ==
    {t \in DOMAIN Templates : C10_Passes(Templates[t])}

C11_FanOutStepsAreIndependent ==
    /\ (pc = "loop" /\ calls.forward = 1) =>
           /\ calls.sms1 = 1
           /\ truthy(msg.customer_email) => calls.cust = 1
    /\ \A k \in {"forward", "read", "assign", "low", "nc_email", "nc_sms1",
                  "nc_sms2", "sms1", "sms2", "cust"} : calls[k] <= 1

\* process_email is done with a message whose sheet assignment failed with
\* nothing written: the low-stock alert, the SMS alert and the customer
\* email were attempted all the same.
C11_Witness ==
    /\ pc = "loop"
    /\ calls.forward = 1
    /\ calls.assign = 1
    /\ ~CardAssignedInSheet
    /\ calls.low = 1
    /\ calls.sms1 = 1
    /\ calls.cust = 1

\* C12: whatever happened during the poll cycle, the connection the cycle
\* opened is closed and logged out when the loop sleeps; a cycle whose
\* connection attempt failed has no connection.
C12_ConnectionLoggedOutBeforeSleep ==
    pc = "sleeping" => mail \in {"none", "logged out"}

\* C14: a customer email with the no-card template is sent only after a
\* no-stock alert was attempted for the same message, and one with the card
\* template only for a message the allocator returned a card record for.
C14_TemplateFollowsAllocation ==
    /\ calls.cust_kind = "no card" => calls.nc_email = 1
    /\ calls.cust_kind = "card" => (calls.read = 1 /\ card.row_number # NoRow)

(***************************************************************************)
(* Monitor instances on one sheet.  One process, or two that divide the    *)
(* messages between them, run the allocation steps of process_email for    *)
(* admitted messages that carry a customer address and name.  pc, email_ids *)
(* and email_id are kept per instance; card and calls are kept per message: *)
(* the record the allocator returned for it and the calls made for it.     *)
(* A step is one request to the sheet; the sends that follow the           *)
(* assignment touch neither the sheet nor the other instance and make up   *)
(* one step.                                                               *)
(***************************************************************************)

\* The messages of S in number order, as a scan returns them.
RECURSIVE in_order(_, _)
in_order(S, m) ==
    IF m > NumMsgs THEN <<>>
    ELSE IF m \in S THEN <<m>> \o in_order(S, m + 1)
         ELSE in_order(S, m + 1)

\* The scans of the instances: a single instance finds every message, two
\* instances find different messages.
Scans ==
    {[first |-> in_order(Msgs, 1)]} \cup
    {[first |-> in_order(S, 1), second |-> in_order(Msgs \ S, 1)] :
        S \in SUBSET Msgs}

InstancesInit ==
    /\ body = <<>>
    /\ phrase = <<>>
    /\ matched = TRUE
    /\ sheet \in InitialSheets
    /\ email_ids \in Scans
    /\ pc = [i \in DOMAIN email_ids |-> "loop"]
    /\ email_id = [i \in DOMAIN email_ids |-> 0]
    /\ card = [m \in Msgs |-> NoCard]
    /\ calls = [m \in Msgs |-> NoCalls]
    /\ history = [m \in Msgs |-> NoHistory]
    /\ mailbox = <<>>
    /\ seen = <<>>
    /\ mail = "none"
    /\ pending = "none"
    /\ exit = [status |-> "none", cause |-> "none"]

\* for email_id in email_ids: self.process_email(mail, email_id)
InstanceNextEmail(i) ==
    /\ pc[i] = "loop"
    /\ email_ids[i] # <<>>
    /\ email_id' = [email_id EXCEPT ![i] = Head(email_ids[i])]
    /\ email_ids' = [email_ids EXCEPT ![i] = Tail(email_ids[i])]
    /\ pc' = [pc EXCEPT ![i] = "allocate"]
    /\ UNCHANGED <<matchVars, sheet, card, mailbox, seen, mail, history,
                   calls, pending, exit>>

\* An allocator whose read marks the record it returns as taken.
InstanceAllocateReserving(i) ==
    /\ pc[i] = "allocate"
    /\ \E ok \in BOOLEAN :
        LET got == IF ok THEN get_next_available_card(sheet) ELSE NoCard
        IN  /\ card' = [card EXCEPT ![email_id[i]] = got]
            /\ pc' = [pc EXCEPT ![i] =
                         IF got.row_number # NoRow THEN "assign" ELSE "sms_alert"]
            /\ sheet' = IF got.row_number # NoRow
                        THEN update_cell(sheet, got.row_number, 3, CustomerName)
                        ELSE sheet
    /\ calls' = [calls EXCEPT ![email_id[i]].read = @ + 1]
    /\ UNCHANGED <<matchVars, mailbox, seen, mail, email_ids, email_id,
                   history, pending, exit>>

\* card_letter, card_number, row_number, total_available =
\*     self.get_next_available_card(): one read of the sheet, which is left
\* as it was.
InstanceAllocate(i) ==
    /\ pc[i] = "allocate"
    /\ \E ok \in BOOLEAN :
        LET got == IF ok THEN get_next_available_card(sheet) ELSE NoCard
        IN  /\ card' = [card EXCEPT ![email_id[i]] = got]
            /\ pc' = [pc EXCEPT ![i] =
                         IF got.row_number # NoRow THEN "assign" ELSE "sms_alert"]
            /\ sheet' = sheet
    /\ calls' = [calls EXCEPT ![email_id[i]].read = @ + 1]
    /\ UNCHANGED <<matchVars, mailbox, seen, mail, email_ids, email_id,
                   history, pending, exit>>

\* self.assign_card_to_customer(row_number, customer_name)
InstanceAssign(i) ==
    /\ pc[i] = "assign"
    /\ \E outcome \in {"written", "fails before column C", "fails after column C"} :
        sheet' = IF outcome = "fails before column C"
                 THEN sheet
                 ELSE update_cell(sheet, card[email_id[i]].row_number, 3,
                                  CustomerName)
    /\ calls' = [calls EXCEPT ![email_id[i]].assign = @ + 1]
    /\ pc' = [pc EXCEPT ![i] = "sms_alert"]
    /\ UNCHANGED <<matchVars, card, mailbox, seen, mail, email_ids, email_id,
                   history, pending, exit>>

\* The stock alert, send_sms_alert and send_customer_email: the card the
\* allocator returned is issued when a message that names it is sent.
InstanceSend(i) ==
    /\ pc[i] = "sms_alert"
    /\ \E sent \in BOOLEAN :
        history' = [history EXCEPT ![email_id[i]].card =
                       IF sent THEN card[email_id[i]].row_number ELSE @]
    /\ pc' = [pc EXCEPT ![i] = "loop"]
    /\ UNCHANGED <<matchVars, sheet, card, mailbox, seen, mail, email_ids,
                   email_id, calls, pending, exit>>

InstancesNext ==
    \/ \E i \in DOMAIN pc : InstanceNextEmail(i)
    \/ \E i \in DOMAIN pc : InstanceAllocate(i)
    \/ \E i \in DOMAIN pc : InstanceAssign(i)
    \/ \E i \in DOMAIN pc : InstanceSend(i)

SpecInstances == InstancesInit /\ [][InstancesNext]_vars

(***************************************************************************)
(* C13                                                                     *)
(***************************************************************************)

\* Two messages have each been returned a record and for neither has
\* assign_card_to_customer been called.
C13_BothReadBeforeEitherWrites(m1, m2) ==
    /\ m1 # m2
    /\ calls[m1].read = 1 /\ card[m1].row_number # NoRow /\ calls[m1].assign = 0
    /\ calls[m2].read = 1 /\ card[m2].row_number # NoRow /\ calls[m2].assign = 0

\* C13: the allocator's read and write are not atomic.  The read leaves
\* the sheet as it is, so two messages that have both been read for before
\* either's write, their records still free in the sheet, were returned the
\* same record; the card a message is issued is the one returned for it;
\* and with a single instance no two messages are ever both read for before
\* either's write.
C13_ReadAndWriteAreNotAtomic ==
    /\ [][\A m \in Msgs : calls'[m].read # calls[m].read => sheet' = sheet]_vars
    /\ [](\A m1, m2 \in Msgs :
            (/\ C13_BothReadBeforeEitherWrites(m1, m2)
             /\ C4_Unassigned(sheet, card[m1].row_number)
             /\ C4_Unassigned(sheet, card[m2].row_number))
                => card[m1].row_number = card[m2].row_number)
    /\ [](\A m \in Msgs :
            history[m].card # NoRow => history[m].card = card[m].row_number)
    /\ [](Cardinality(DOMAIN pc) = 1 =>
            \A m1, m2 \in Msgs : ~C13_BothReadBeforeEitherWrites(m1, m2))

\* Two instances have read the same first available record, each for its
\* own message, before either has written.
C13_Witness ==
    /\ DOMAIN pc = {"first", "second"}
    /\ pc["first"] = "assign"
    /\ pc["second"] = "assign"
    /\ email_id["first"] # email_id["second"]
    /\ C13_BothReadBeforeEitherWrites(email_id["first"], email_id["second"])
    /\ card[email_id["first"]].row_number = card[email_id["second"]].row_number

====
